---- MODULE Spec2Model ----
(***************************************************************************)
(* Model of isc_dhcp_leases.py: the Lease record parser and the            *)
(* LeaseDatabaseManager store with its active / abandoned views.           *)
(*                                                                         *)
(* Text is modelled as sequences of one-character strings where the code   *)
(* computes on the characters (the ip address); a timestamp is modelled    *)
(* as an integer instant, and a statement of a block as a small record     *)
(* saying what the statement's text looks like to the regular expressions. *)
(* The lists active_leases and abandoned_leases hold references to the     *)
(* Lease objects of self.leases: a reference is the object's index there.  *)
(***************************************************************************)
EXTENDS Integers, Sequences, FiniteSets, TLC

\* ------------------------------------------------------------------ bounds
\* Largest number of lease blocks in the file.
MaxLen == 2
\* Largest value of the system clock.
MaxTime == 1
\* Largest number of calls of the view methods on one store.
MaxCalls == 2
\* Largest clock value a single Lease is evaluated at.
MaxNow == 3

\* ------------------------------------------------------------- raw inputs
\* A field value: None, a datetime (the instant v), a str (the text s), or
\* the exception the field's method raised.
None == [k |-> "None", s |-> "", v |-> 0]
Datetime(t) == [k |-> "datetime", s |-> "", v |-> t]
Str(x) == [k |-> "str", s |-> x, v |-> 0]
Raise(x) == [k |-> "raise", s |-> x, v |-> 0]
\* The ip of a block whose head REGEX_IP does not match (None).
NoIp == <<>>

IP_A == <<"1","0",".","0",".","0",".","5">>
IP_B == <<"2",".","2",".","2",".","2">>
IP_C == <<"1","9","2",".","1","6","8",".","1",".","1">>
\* A block head the segmentation accepts and REGEX_IP rejects (leading 0).
IP_BAD == <<"0",".","0",".","0",".","1">>

IPs == {IP_A, IP_B, IP_C}

Digits == {"0","1","2","3","4","5","6","7","8","9"}

DigitVal(c) ==
  CASE c = "0" -> 0 [] c = "1" -> 1 [] c = "2" -> 2 [] c = "3" -> 3
    [] c = "4" -> 4 [] c = "5" -> 5 [] c = "6" -> 6 [] c = "7" -> 7
    [] c = "8" -> 8 [] c = "9" -> 9

\* A statement of a block, as the regular expressions see it:
\*   absent                      no such statement in the block
\*   ts(t)                       a well-formed timestamp, the instant t
\*   badts                       digits in the timestamp layout that name no
\*                               date (2013/13/45 25:61:61)
\*   never                       the literal never
\*   garbage                     any other text (ends 2 tomorrow;)
StmtAbsent == [kind |-> "absent", val |-> 0]
StmtNever == [kind |-> "never", val |-> 0]
StmtGarbage == [kind |-> "garbage", val |-> 0]
StmtBadTs == [kind |-> "badts", val |-> 0]
StmtTs(t) == [kind |-> "ts", val |-> t]

MkBlock(ip, starts, ends, binding) ==
  [ip |-> ip, starts |-> starts, ends |-> ends, binding |-> binding]

\* The blocks the files of the store are drawn from.
StoreBlocks ==
  { MkBlock(IP_A, StmtAbsent, StmtAbsent, "abandoned"),
    MkBlock(IP_A, StmtTs(0), StmtTs(1), "active"),
    MkBlock(IP_A, StmtTs(0), StmtTs(2), "abandoned"),
    MkBlock(IP_B, StmtTs(1), StmtTs(2), "abandoned"),
    MkBlock(IP_B, StmtTs(0), StmtNever, "active"),
    MkBlock(IP_C, StmtTs(0), StmtTs(2), "free"),
    MkBlock(IP_A, StmtAbsent, StmtTs(2), "active"),
    MkBlock(IP_BAD, StmtAbsent, StmtNever, "abandoned") }

\* The versions of one lease a longer history is drawn from.
VersionBlocks ==
  { MkBlock(IP_A, StmtAbsent, StmtAbsent, "abandoned"),
    MkBlock(IP_A, StmtTs(0), StmtTs(1), "active"),
    MkBlock(IP_A, StmtTs(0), StmtTs(2), "abandoned") }

\* The files: every sequence of up to MaxLen blocks, and the histories of
\* one lease that are one version longer.
Files ==
  UNION { [1..n -> StoreBlocks] : n \in 0..MaxLen }
    \cup [1..(MaxLen + 1) -> VersionBlocks]

\* The blocks a single Lease is parsed from.
StartsStmts == {StmtAbsent, StmtGarbage, StmtBadTs, StmtTs(0), StmtTs(1), StmtTs(2)}
EndsStmts == {StmtAbsent, StmtNever, StmtGarbage, StmtBadTs, StmtTs(1), StmtTs(2)}
Bindings == {"active", "abandoned", "free"}

LeaseBlocks ==
  { MkBlock(ip, st, en, bi) :
      ip \in {IP_A, IP_BAD}, st \in StartsStmts, en \in EndsStmts, bi \in Bindings }

\* ------------------------------------------------------------------ state
VARIABLES
  file,              \* the lease blocks of the file, in file order
  leases,            \* self.leases
  active_leases,     \* self.active_leases
  abandoned_leases,  \* self.abandoned_leases
  clock,             \* the system clock, datetime.utcnow()
  err,               \* the exception that ended the last call, or "none"
  loaded,            \* __init__ has run
  samples,           \* the clock values the last call's scan read, per record
  report,            \* what the last call printed, if print_active_leases
  nActive,           \* calls of find_active_leases so far
  nAbandoned,        \* calls of find_abandoned_leases so far
  eval               \* the properties of a Lease as last evaluated

vars == <<file, leases, active_leases, abandoned_leases, clock, err, loaded,
          samples, report, nActive, nAbandoned, eval>>

\* ---------------------------------------------------------------- helpers
RECURSIVE SplitAcc(_, _, _, _)
SplitAcc(s, sep, cur, acc) ==
  IF s = <<>> THEN Append(acc, cur)
  ELSE IF Head(s) = sep THEN SplitAcc(Tail(s), sep, <<>>, Append(acc, cur))
  ELSE SplitAcc(Tail(s), sep, Append(cur, Head(s)), acc)

\* str.split(sep)
Split(s, sep) == SplitAcc(s, sep, <<>>, <<>>)

RECURSIVE LongAcc(_, _)
LongAcc(tok, acc) ==
  IF tok = <<>> THEN acc ELSE LongAcc(Tail(tok), acc * 10 + DigitVal(Head(tok)))

\* long(token)
Long(tok) == LongAcc(tok, 0)

\* A Python long too wide for one machine integer, kept exact as two limbs:
\* the value is hi * 2^16 + lo with 0 <= lo < 2^16.
Limbs(hi, lo) == [hi |-> hi + (lo \div 65536), lo |-> lo % 65536]

\* a <= b on longs
LongLE(a, b) == a.hi < b.hi \/ (a.hi = b.hi /\ a.lo <= b.lo)

ip_as_int_le(ip_str) ==
  LET tokens == Split(ip_str, ".")
  IN  Limbs((Long(tokens[4]) * 256) + Long(tokens[3]),
            (Long(tokens[2]) * 256) + Long(tokens[1]))

\* (long(tokens[0]) << 24) + (long(tokens[1]) << 16)
\*   + (long(tokens[2]) << 8) + long(tokens[3])
ip_as_int(ip_str) ==
  LET tokens == Split(ip_str, ".")
  IN  Limbs((Long(tokens[1]) * 256) + Long(tokens[2]),
            (Long(tokens[3]) * 256) + Long(tokens[4]))

\* ----------------------------------------------------------------- parser
IsDigits(tok, lo, hi) ==
  /\ Len(tok) >= lo
  /\ Len(tok) <= hi
  /\ \A k \in 1..Len(tok) : tok[k] \in Digits

\* REGEX_IP = [1-9]\d{0,2}\.\d{1,3}\.\d{1,3}\.\d{1,3}
REGEX_IP(tok) ==
  LET ts == Split(tok, ".")
  IN  /\ Len(ts) = 4
      /\ \A k \in 1..4 : IsDigits(ts[k], 1, 3)
      /\ ts[1][1] # "0"

find_ip(b) == IF REGEX_IP(b.ip) THEN b.ip ELSE NoIp

\* starts\s+[0-6]\s+(?P<starts>TIMESTAMP), then strptime
find_starts(b) ==
  CASE b.starts.kind = "ts" -> Datetime(b.starts.val)
    [] b.starts.kind = "badts" -> Raise("ValueError")
    [] OTHER -> None

\* ends\s+[0-6]\s+(?P<ends>TIMESTAMP|never); then strptime unless never
find_ends(b) ==
  CASE b.ends.kind = "never" -> Str("never")
    [] b.ends.kind = "ts" -> Datetime(b.ends.val)
    [] b.ends.kind = "badts" -> Raise("ValueError")
    [] OTHER -> None

\* binding\s+state\s+(?P<binding>\w+);
find_binding(b) == b.binding

\* Lease.__init__: every field found by its own method
Lease(b) ==
  [ip |-> find_ip(b), starts |-> find_starts(b), ends |-> find_ends(b),
   binding |-> find_binding(b)]

\* The exception Lease(b) ends with, or "none".
LeaseRaises(b) ==
  IF Lease(b).starts.k = "raise" THEN Lease(b).starts.s
  ELSE IF Lease(b).ends.k = "raise" THEN Lease(b).ends.s
  ELSE "none"

\* ------------------------------------------------------- Lease properties
\* Lease.__eq__: two records are equal when their ips are
LeaseEq(a, b) == a.ip = b.ip

static_never_only(l) ==
  IF l.ends.k = "str" /\ l.ends.s = "never" THEN "True" ELSE "False"

\* Lease.static: "True", "False" or the exception raised
static(l) ==
  IF l.ends.k = "None" THEN "True"
  ELSE IF l.ends.k = "str"
       THEN (IF l.ends.s = "never" THEN "True" ELSE "LeaseError")
  ELSE "False"

active_after_start(l, now) ==
  IF static(l) = "True" THEN "True"
  ELSE IF static(l) # "False" THEN static(l)
  ELSE IF l.starts.k # "datetime" THEN "TypeError"
  ELSE IF l.starts.v < now /\ l.ends.v > now THEN "True" ELSE "False"

\* Lease.active at the clock value now: "True", "False" or the exception.
\* None <= datetime raises TypeError.
active(l, now) ==
  IF static(l) = "True" THEN "True"
  ELSE IF static(l) # "False" THEN static(l)
  ELSE IF l.starts.k # "datetime" THEN "TypeError"
  ELSE IF l.starts.v <= now /\ l.ends.v > now THEN "True" ELSE "False"

\* Lease.abandoned
abandoned(l) == l.binding = "abandoned"

\* ------------------------------------------------------------------ store
\* lease in view: some member of the list is equal (by ip) to the lease
Contains(ls, view, i) == \E k \in 1..Len(view) : LeaseEq(ls[view[k]], ls[i])

\* list.remove(lease): drops the first member equal to the lease
RECURSIVE Remove(_, _, _)
Remove(ls, view, i) ==
  IF view = <<>> THEN <<>>
  ELSE IF LeaseEq(ls[Head(view)], ls[i]) THEN Tail(view)
  ELSE <<Head(view)>> \o Remove(ls, Tail(view), i)

AddActiveKeepFirst(ls, view, i) ==
  IF Contains(ls, view, i) THEN view ELSE Append(view, i)

AddActiveNoRemove(ls, view, i) == Append(view, i)

\* The body of find_active_leases' loop for an active lease: replace, append
AddActive(ls, view, i) ==
  Append(IF Contains(ls, view, i) THEN Remove(ls, view, i) ELSE view, i)

\* The loop of find_active_leases from record i on; ts[i] is the clock value
\* record i's active property reads. Ends at the first exception.
RECURSIVE ActiveScan(_, _, _, _)
ActiveScan(ls, view, ts, i) ==
  IF i > Len(ls) THEN [view |-> view, err |-> "none", n |-> Len(ls)]
  ELSE LET r == active(ls[i], ts[i])
       IN  IF r = "True" THEN ActiveScan(ls, AddActive(ls, view, i), ts, i + 1)
           ELSE IF r = "False" THEN ActiveScan(ls, view, ts, i + 1)
           ELSE [view |-> view, err |-> r, n |-> i]

\* The sort key of find_active_leases and find_abandoned_leases
SortKey(ls, i) == ip_as_int(ls[i].ip)

\* list.sort(key=...): stable, ascending by key
RECURSIVE Insert(_, _, _)
Insert(ls, sorted, x) ==
  IF sorted = <<>> THEN <<x>>
  ELSE IF LongLE(SortKey(ls, Head(sorted)), SortKey(ls, x))
       THEN <<Head(sorted)>> \o Insert(ls, Tail(sorted), x)
  ELSE <<x>> \o sorted

RECURSIVE SortAcc(_, _, _)
SortAcc(ls, view, acc) ==
  IF view = <<>> THEN acc
  ELSE SortAcc(ls, Tail(view), Insert(ls, acc, Head(view)))

\* view.sort(key=lambda l: ip_as_int(l['ip'])): the key of a lease without
\* ip raises AttributeError and the list stays as it was
SortByIp(ls, view) ==
  IF \E k \in 1..Len(view) : ls[view[k]].ip = NoIp
  THEN [view |-> view, err |-> "AttributeError"]
  ELSE [view |-> SortAcc(ls, view, <<>>), err |-> "none"]

\* find_active_leases, reading the clock values ts
find_active_leases(ls, view, ts) ==
  LET sc == ActiveScan(ls, view, ts, 1)
  IN  IF sc.err # "none" THEN sc
      ELSE [view |-> SortByIp(ls, sc.view).view,
            err |-> SortByIp(ls, sc.view).err, n |-> sc.n]

CollectAbandonedOnce(ls, view, i) ==
  IF Contains(ls, view, i) THEN view ELSE Append(view, i)

\* The body of find_abandoned_leases' loop for an abandoned lease
CollectAbandoned(ls, view, i) == Append(view, i)

RECURSIVE AbandonedScan(_, _, _)
AbandonedScan(ls, view, i) ==
  IF i > Len(ls) THEN view
  ELSE AbandonedScan(ls, IF abandoned(ls[i]) THEN CollectAbandoned(ls, view, i)
                         ELSE view, i + 1)

find_abandoned_leases(ls, view) == SortByIp(ls, AbandonedScan(ls, view, 1))

\* The clock readings of one scan: one per record, never going back.
Readings(from, n) ==
  { ts \in [1..n -> from..MaxTime] :
      \A k \in 1..n : ts[k] >= (IF k = 1 THEN from ELSE ts[k - 1]) }

Last(ts, from) == IF ts = <<>> THEN from ELSE ts[Len(ts)]

NoReport == [printed |-> FALSE, only_static |-> FALSE, rows |-> <<>>,
             total |-> 0, now |-> 0]

RowShowAll(ls, i, only_static) == TRUE

\* print_active_leases' loop: is the lease printed
RowShown(ls, i, only_static) == ~(only_static /\ static(ls[i]) # "True")

\* The Expires column before rounding: never, or ends - now
Expires(l, now) ==
  IF static(l) = "True" THEN [never |-> TRUE, left |-> 0]
  ELSE [never |-> FALSE, left |-> l.ends.v - now]

RECURSIVE Rows(_, _, _, _)
Rows(ls, view, only_static, now) ==
  IF view = <<>> THEN <<>>
  ELSE (IF RowShown(ls, Head(view), only_static)
        THEN << [lease |-> Head(view), ends |-> Expires(ls[Head(view)], now)] >>
        ELSE <<>>) \o Rows(ls, Tail(view), only_static, now)

\* The total line of the report
Total(ls, view, only_static) ==
  IF only_static
  THEN Cardinality({k \in 1..Len(view) : static(ls[view[k]]) = "True"})
  ELSE Len(view)

\* ---------------------------------------------------------------- actions
NoEval == [done |-> FALSE, lease |-> 0, now |-> 0, static |-> "", active |-> "",
           abandoned |-> FALSE]

InitCommon ==
  /\ leases = <<>>
  /\ active_leases = <<>>
  /\ abandoned_leases = <<>>
  /\ clock = 0
  /\ err = "none"
  /\ loaded = FALSE
  /\ samples = <<>>
  /\ report = NoReport
  /\ nActive = 0
  /\ nAbandoned = 0
  /\ eval = NoEval

Init == file \in Files /\ InitCommon

InitLease == file \in { <<b>> : b \in LeaseBlocks } /\ InitCommon

\* LeaseDatabaseManager.__init__: a Lease per block, in file order; the
\* first block whose parse raises ends the load.
Load ==
  /\ ~loaded
  /\ err = "none"
  /\ LET bad == {k \in 1..Len(file) : LeaseRaises(file[k]) # "none"}
     IN  IF bad = {}
         THEN /\ leases' = [k \in 1..Len(file) |-> Lease(file[k])]
              /\ loaded' = TRUE
              /\ err' = "none"
         ELSE /\ leases' = <<>>
              /\ loaded' = FALSE
              /\ err' = LeaseRaises(file[CHOOSE k \in bad : \A j \in bad : k <= j])
  /\ UNCHANGED <<file, active_leases, abandoned_leases, clock, samples, report,
                 nActive, nAbandoned, eval>>

CanCall == loaded /\ err = "none" /\ nActive + nAbandoned < MaxCalls

FindActive ==
  /\ CanCall
  /\ \E ts \in Readings(clock, Len(leases)) :
       LET r == find_active_leases(leases, active_leases, ts)
       IN  /\ active_leases' = r.view
           /\ err' = r.err
           /\ samples' = SubSeq(ts, 1, r.n)
           /\ clock' = Last(SubSeq(ts, 1, r.n), clock)
  /\ nActive' = nActive + 1
  /\ report' = NoReport
  /\ UNCHANGED <<file, leases, abandoned_leases, loaded, nAbandoned, eval>>

FindAbandoned ==
  /\ CanCall
  /\ LET r == find_abandoned_leases(leases, abandoned_leases)
     IN  /\ abandoned_leases' = r.view
         /\ err' = r.err
  /\ nAbandoned' = nAbandoned + 1
  /\ samples' = <<>>
  /\ report' = NoReport
  /\ UNCHANGED <<file, leases, active_leases, clock, loaded, nActive, eval>>

\* print_active_leases(only_static): find_active_leases, then one more clock
\* reading, now, for the whole report
PrintActive ==
  /\ CanCall
  /\ \E only_static \in BOOLEAN :
     \E ts \in Readings(clock, Len(leases)) :
       LET r == find_active_leases(leases, active_leases, ts)
           t == Last(SubSeq(ts, 1, r.n), clock)
       IN  /\ active_leases' = r.view
           /\ err' = r.err
           /\ samples' = SubSeq(ts, 1, r.n)
           /\ IF r.err # "none"
              THEN clock' = t /\ report' = NoReport
              ELSE \E now \in t..MaxTime :
                     /\ clock' = now
                     /\ report' = [printed |-> TRUE,
                                   only_static |-> only_static,
                                   rows |-> Rows(leases, r.view, only_static, now),
                                   total |-> Total(leases, r.view, only_static),
                                   now |-> now]
  /\ nActive' = nActive + 1
  /\ UNCHANGED <<file, leases, abandoned_leases, loaded, nAbandoned, eval>>

\* Reading the properties static, active and abandoned of one Lease, the
\* clock standing at now
Evaluate ==
  /\ loaded
  /\ err = "none"
  /\ \E i \in 1..Len(leases) :
     \E now \in 0..MaxNow :
       eval' = [done |-> TRUE, lease |-> i, now |-> now,
                static |-> static(leases[i]),
                active |-> active(leases[i], now),
                abandoned |-> abandoned(leases[i])]
  /\ UNCHANGED <<file, leases, active_leases, abandoned_leases, clock, err,
                 loaded, samples, report, nActive, nAbandoned>>

Next == Load \/ FindActive \/ FindAbandoned \/ PrintActive

Spec == Init /\ [][Next]_vars

NextLease == Load \/ Evaluate

SpecLease == InitLease /\ [][NextLease]_vars

\* ----------------------------------------------------------------- claims
\* The words of the specification, stated on the parsed records.
IsStatic(l) == l.ends = None \/ l.ends = Str("never")

IsActive(l, now) ==
  \/ IsStatic(l)
  \/ /\ l.starts.k = "datetime"
     /\ l.ends.k = "datetime"
     /\ l.starts.v <= now
     /\ now < l.ends.v

IsAbandoned(l) == l.binding = "abandoned"

Count(view, i) == Cardinality({k \in 1..Len(view) : view[k] = i})

InView(view, i) == Count(view, i) > 0

\* The dotted quad as its four octets; for octets below 256 the order of the
\* 32-bit values is the order of the octets read left to right.
Octets(ip) == [k \in 1..4 |-> Long(Split(ip, ".")[k])]

NumLE(a, b) ==
  LET x == Octets(a)
      y == Octets(b)
  IN  \/ x = y
      \/ \E k \in 1..4 : x[k] < y[k] /\ \A j \in 1..(k - 1) : x[j] = y[j]

SortedByIp(view) ==
  \A k \in 1..(Len(view) - 1) : NumLE(leases[view[k]].ip, leases[view[k + 1]].ip)

\* The first find_active_leases of the store has returned, and samples holds
\* the clock value each record was tested at.
FirstScanDone ==
  /\ loaded
  /\ err = "none"
  /\ nActive = 1
  /\ Len(samples) = Len(leases)

ActiveWhenTested(i) == IsActive(leases[i], samples[i])

\* Records i < j of one ip, both active when tested
Versions(i, j) ==
  /\ i < j
  /\ leases[i].ip = leases[j].ip
  /\ ActiveWhenTested(i)
  /\ ActiveWhenTested(j)

\* C1 as stated: whenever records A and B have the same ip, B after A in the
\* file and both active, the active view after find_active_leases holds B
\* and does not hold A.
C1_LastWriteWinsEveryPair ==
  FirstScanDone =>
    \A i, j \in 1..Len(leases) :
      Versions(i, j) => InView(active_leases, j) /\ ~InView(active_leases, i)

\* C1 amended: for records A and B of one ip, B after A and both active, the
\* active view after find_active_leases does not hold A, and it holds B
\* unless a record of the same ip later than B is active too (then the view
\* holds the last of them).
C1_LastWriteWins ==
  FirstScanDone =>
    \A i, j \in 1..Len(leases) :
      Versions(i, j) =>
        /\ ~InView(active_leases, i)
        /\ (~(\E k \in 1..Len(leases) : Versions(j, k))
              => Count(active_leases, j) = 1)

C1_Witness ==
  /\ FirstScanDone
  /\ \E i, j \in 1..Len(leases) :
       /\ Versions(i, j)
       /\ leases[i] # leases[j]
       /\ InView(active_leases, j)

\* C2: after find_active_leases on a freshly built store the ips of the
\* active view are exactly the ips with a record active when tested, each
\* once.
C2_ActiveIps ==
  FirstScanDone =>
    /\ { leases[active_leases[k]].ip : k \in 1..Len(active_leases) }
         = { leases[i].ip : i \in {n \in 1..Len(leases) : ActiveWhenTested(n)} }
    /\ \A k, m \in 1..Len(active_leases) :
         leases[active_leases[k]].ip = leases[active_leases[m]].ip => k = m

C2_Witness ==
  /\ FirstScanDone
  /\ Len(active_leases) = 2
  /\ \A n \in 1..Len(leases) : ActiveWhenTested(n)
  /\ Len(leases) = 2

\* C3: after find_abandoned_leases on a freshly built store the abandoned
\* view holds every record whose binding state is abandoned, once each and
\* no other, records of one ip included.
C3_AbandonedAll ==
  (loaded /\ err = "none" /\ nAbandoned = 1) =>
    /\ \A i \in 1..Len(leases) :
         Count(abandoned_leases, i) = (IF IsAbandoned(leases[i]) THEN 1 ELSE 0)
    /\ Len(abandoned_leases)
         = Cardinality({i \in 1..Len(leases) : IsAbandoned(leases[i])})

C3_Witness ==
  /\ loaded /\ err = "none" /\ nAbandoned = 1
  /\ \E k, m \in 1..Len(abandoned_leases) :
       /\ k # m
       /\ leases[abandoned_leases[k]].ip = leases[abandoned_leases[m]].ip

\* C4: after find_active_leases and after find_abandoned_leases the view is
\* in ascending order of the numeric value of the ip, not of its text.
C4_SortedByIp ==
  (loaded /\ err = "none") =>
    SortedByIp(active_leases) /\ SortedByIp(abandoned_leases)

C4_Witness ==
  /\ loaded /\ err = "none"
  /\ \E v \in {active_leases, abandoned_leases} :
       /\ Len(v) = 2
       /\ v[1] > v[2]
       /\ leases[v[1]].ip = IP_B
       /\ leases[v[2]].ip = IP_A

\* The load has run to its end, well or not.
LoadEnded == loaded \/ err # "none"

MalformedEnds(b) == b.ends.kind \in {"garbage", "badts"}

\* C5: a block whose ends statement holds neither a timestamp nor never
\* makes the load end with LeaseError; the block is never taken in as a
\* record, so never found static or active.
C5_MalformedEndsAborts ==
  \A k \in 1..Len(file) :
    (MalformedEnds(file[k]) /\ LoadEnded) =>
      /\ ~loaded
      /\ err = "LeaseError"
      /\ ~eval.done

\* C6: one clock value serves a whole print_active_leases: every record is
\* tested at the now the report is rendered with, and every lease listed
\* with an end has time left at that now.
C6_OneNowPerReport ==
  report.printed =>
    /\ \A k \in 1..Len(samples) : samples[k] = report.now
    /\ \A k \in 1..Len(report.rows) :
         ~report.rows[k].ends.never => report.rows[k].ends.left > 0

\* C7: a view computed again is the view one computation from the records
\* gives at that time: nothing twice, nothing left over.
C7_RecomputeIdempotent ==
  (loaded /\ err = "none") =>
    /\ nAbandoned >= 1 =>
         abandoned_leases = find_abandoned_leases(leases, <<>>).view
    /\ (nActive >= 1 /\ Len(samples) = Len(leases)) =>
         active_leases = find_active_leases(leases, <<>>, samples).view

\* The record last evaluated
Evaluated == leases[eval.lease]

\* C8: a record with a starts and an ends timestamp is active at now exactly
\* when starts <= now < ends.
C8_ActiveWindow ==
  (eval.done /\ Evaluated.starts.k = "datetime" /\ Evaluated.ends.k = "datetime") =>
    /\ eval.active \in {"True", "False"}
    /\ eval.active = "True"
         <=> (Evaluated.starts.v <= eval.now /\ eval.now < Evaluated.ends.v)

C8_Witness ==
  /\ eval.done
  /\ Evaluated.starts.k = "datetime"
  /\ Evaluated.ends.k = "datetime"
  /\ eval.now = Evaluated.starts.v
  /\ eval.now < Evaluated.ends.v
  /\ eval.active = "True"

\* C9: a record whose block has no ends statement, or ends never, is static
\* and active at every now, whatever its starts and its binding state.
C9_StaticAlwaysActive ==
  (eval.done /\ file[eval.lease].ends.kind \in {"absent", "never"}) =>
    eval.static = "True" /\ eval.active = "True"

C9_Witness ==
  /\ eval.done
  /\ file[eval.lease].ends.kind = "absent"
  /\ file[eval.lease].starts.kind = "ts"
  /\ file[eval.lease].starts.val > eval.now
  /\ file[eval.lease].binding = "abandoned"
  /\ eval.active = "True"

IsStaticRef(i) == IsStatic(leases[i])

\* C10: the static report lists exactly the static members of the active
\* view, in its order, counts them, and leaves the active view as the
\* reconciliation made it.
C10_StaticFilter ==
  (report.printed /\ report.only_static) =>
    /\ [k \in 1..Len(report.rows) |-> report.rows[k].lease]
         = SelectSeq(active_leases, IsStaticRef)
    /\ report.total = Len(report.rows)
    /\ (nActive = 1 =>
          { leases[active_leases[k]].ip : k \in 1..Len(active_leases) }
            = { leases[i].ip : i \in {n \in 1..Len(leases) : ActiveWhenTested(n)} })

C10_Witness ==
  /\ report.printed
  /\ report.only_static
  /\ Len(report.rows) = 1
  /\ Len(active_leases) = 2

\* The last record of the file with the ip of record i
LastOfIp(i) ==
  CHOOSE j \in 1..Len(leases) :
    /\ leases[j].ip = leases[i].ip
    /\ \A k \in 1..Len(leases) : leases[k].ip = leases[i].ip => k <= j

\* C11: the record the active view holds for an ip is the last record of
\* that ip in the file; when that last record is not active the view holds
\* no record of the ip, an earlier version still in its window included.
C11_LatestAuthoritative ==
  FirstScanDone =>
    \A k \in 1..Len(active_leases) :
      active_leases[k] = LastOfIp(active_leases[k])

\* C12: the active property of a parsed record never raises, a record with
\* no starts and an ends timestamp included, so find_active_leases runs to
\* its end on every file.
C12_ActiveNeverRaises ==
  (loaded /\ nActive >= 1 /\ nAbandoned = 0) =>
    err \notin {"TypeError", "LeaseError"}

====
